---- MODULE Spec2Model ----
(***************************************************************************)
(* FontCompress.py: scan a directory of HTML/JS files for the characters   *)
(* they display, add the always-kept characters, subset a font to the      *)
(* resulting code points and write it to the output path.                  *)
(*                                                                         *)
(* Characters are one-character strings; a character outside ASCII, and    *)
(* the grave accent, is written "U+XXXX".  File contents are sequences of  *)
(* tokens: a token is a character or a piece of markup that the regular    *)
(* expressions of the program treat as a unit.                             *)
(***************************************************************************)
EXTENDS Naturals, Integers, Sequences, FiniteSets, TLC

VARIABLES
    directory,    \* the -d argument: [exists, files]
    unreadable,   \* files whose read_text raises (I/O or decode error)
    keep_given,   \* the -k argument: [given, value]
    font_kind,    \* the -f argument: "good", "unloadable", "unsubsettable"
    out0,         \* what the output path held when the run started
    caller,       \* "main", or "direct" for a call of create_font_subset
    pc,           \* position of the run
    args_keep,    \* args.keep after parse_args
    pending,      \* paths rglob has still to yield
    visited,      \* paths the loop of collect_chars_from_directory has taken
    all_chars,    \* all_chars of collect_chars_from_directory
    file_count,   \* file_count of collect_chars_from_directory
    char_set,     \* char_set of main / create_font_subset
    unicode_set,  \* unicode_set of create_font_subset
    font,         \* the TTFont object: [state, unicodes]
    out,          \* the file at the output path: [state, subsetted, unicodes]
    fail_stage,   \* the step whose exception ended the run, or "none"
    reported,     \* the size report of main has been logged
    html,         \* extract_chars_from_html: the text read from the file
    html_result,  \* extract_chars_from_html: the returned set
    html_pc       \* extract_chars_from_html: "idle", "read" or "returned"

vars == <<directory, unreadable, keep_given, font_kind, out0, caller, pc,
          args_keep, pending, visited, all_chars, file_count, char_set,
          unicode_set, font, out, fail_stage, reported, html, html_result,
          html_pc>>

mainVars == <<directory, unreadable, keep_given, font_kind, out0, caller, pc,
              args_keep, pending, visited, all_chars, file_count, char_set,
              unicode_set, font, out, fail_stage, reported>>

htmlVars == <<html, html_result, html_pc>>

----------------------------------------------------------------------------
(* Bounds of the model *)

\* number of paths below the scanned directory
NumFiles == 3
\* longest markup text given to extract_chars_from_html on its own
MaxHtmlLen == 4
\* number of characters a direct caller of create_font_subset chooses from
MaxChars == 4

----------------------------------------------------------------------------
(* Characters and code points *)

Range(s) == {s[i] : i \in 1..Len(s)}

\* string.digits
digits ==
    <<"0", "1", "2", "3", "4", "5", "6", "7", "8", "9">>

\* string.ascii_letters
ascii_letters ==
    <<"a", "b", "c", "d", "e", "f", "g", "h", "i", "j", "k", "l", "m", "n", "o", "p",
      "q", "r", "s", "t", "u", "v", "w", "x", "y", "z", "A", "B", "C", "D", "E", "F",
      "G", "H", "I", "J", "K", "L", "M", "N", "O", "P", "Q", "R", "S", "T", "U", "V",
      "W", "X", "Y", "Z">>

\* string.punctuation
punctuation ==
    <<"!", "\"", "#", "$", "%", "&", "'", "(", ")", "*", "+", ",", "-", ".", "/", ":",
       ";", "<", "=", ">", "?", "@", "[", "\\", "]", "^", "_", "U+0060", "{", "|", "}", "~">>

\* the default of --keep: a sentence describing the characters to keep
DefaultKeep ==
    <<"U+82F1", "U+6587", "U+7684", "U+6240", "U+6709", "U+5B57", "U+6BCD",
       "U+548C", "U+963F", "U+62C9", "U+4F2F", "U+6570", "U+5B57", "U+4EE5",
       "U+53CA", "U+5E38", "U+7528", "U+7B26", "U+53F7">>

\* the whitespace string of create_font_subset: space, LF, tab, CR
BasicWhitespace == <<" ", "\n", "\t", "\r">>

\* characters of the printable ASCII range in code order, 33..126
AsciiOrder ==
    <<"!", "\"", "#", "$", "%", "&", "'", "(", ")", "*", "+", ",", "-", ".", "/", "0",
       "1", "2", "3", "4", "5", "6", "7", "8", "9", ":", ";", "<", "=", ">", "?", "@",
       "A", "B", "C", "D", "E", "F", "G", "H", "I", "J", "K", "L", "M", "N", "O", "P",
       "Q", "R", "S", "T", "U", "V", "W", "X", "Y", "Z", "[", "\\", "]", "^", "_", "U+0060",
       "a", "b", "c", "d", "e", "f", "g", "h", "i", "j", "k", "l", "m", "n", "o", "p",
       "q", "r", "s", "t", "u", "v", "w", "x", "y", "z", "{", "|", "}", "~">>

\* characters written by code point, with their code points
CodePointChars ==
    {<<"U+0060", 96>>, <<"U+2460", 9312>>, <<"U+4E16", 19990>>, <<"U+4EE5", 20197>>, <<"U+4F2F", 20271>>,
     <<"U+53CA", 21450>>, <<"U+53F7", 21495>>, <<"U+548C", 21644>>, <<"U+5B57", 23383>>,
     <<"U+5E38", 24120>>, <<"U+6240", 25152>>, <<"U+62C9", 25289>>, <<"U+6570", 25968>>,
     <<"U+6587", 25991>>, <<"U+6709", 26377>>, <<"U+6BCD", 27597>>, <<"U+7528", 29992>>,
     <<"U+754C", 30028>>, <<"U+7684", 30340>>, <<"U+7B26", 31526>>, <<"U+82F1", 33521>>,
     <<"U+963F", 38463>>, <<"U+FFE5", 65509>>}

IndexOf(s, c) == CHOOSE i \in 1..Len(s) : s[i] = c

\* ord(char)
Ord(c) ==
    CASE c = " "  -> 32
      [] c = "\n" -> 10
      [] c = "\t" -> 9
      [] c = "\r" -> 13
      [] c \in Range(AsciiOrder) -> 32 + IndexOf(AsciiOrder, c)
      [] OTHER -> (CHOOSE w \in CodePointChars : w[1] = c)[2]

----------------------------------------------------------------------------
(* Tokens of file contents *)

\* markup tokens of the HTML samples
ScriptOpen    == "<script>"
ScriptClose   == "</script>"
StyleOpen     == "<style>"
StyleClose    == "</style>"
\* the text  </\1>  : a less-than sign, a slash, a backslash, the digit one
\* and a greater-than sign
BackrefClose  == "</\\1>"
AltTag        == "<img alt=\"v\">"
StyleAttrTag  == "<p style=\"content:'w'\">"

\* the opening tags the first pattern of extract_chars_from_html names
\* (script|style|noscript|meta, without attributes)
NonRenderingOpen == {ScriptOpen, StyleOpen, "<noscript>", "<meta>"}

\* the closing tag that ends the element an opening tag starts
ClosingOf(t) ==
    CASE t = ScriptOpen   -> ScriptClose
      [] t = StyleOpen    -> StyleClose
      [] t = "<noscript>" -> "</noscript>"
      [] OTHER            -> "</meta>"

\* what the pattern <[^>]+> matches
HtmlTags ==
    NonRenderingOpen
      \cup {ScriptClose, StyleClose, "</noscript>", "</meta>", BackrefClose,
            AltTag, StyleAttrTag}

\* the token console.log( of the JS samples
ConsoleLog == "console.log("

\* the characters of a token of a JS text
CharsOf(t) ==
    IF t = ConsoleLog
    THEN {"c", "o", "n", "s", "l", "e", ".", "g", "("}
    ELSE {t}

CharsOfSeq(s) == UNION {CharsOf(s[i]) : i \in 1..Len(s)}

----------------------------------------------------------------------------
(* extract_chars_from_html *)

\* the positions after i that hold token t
PositionsAfter(s, i, ts) == {j \in (i+1)..Len(s) : s[j] \in ts}

Min(S) == CHOOSE m \in S : \A n \in S : m <= n

RECURSIVE StripNonRenderingFrom(_, _)
\* re.sub of the first pattern from position i on: an opening tag of
\* script|style|noscript|meta, then as little as possible up to the text
\* the pattern ends with, which is the five characters of BackrefClose
StripNonRenderingFrom(s, i) ==
    IF i > Len(s) THEN <<>>
    ELSE IF s[i] \in NonRenderingOpen /\ PositionsAfter(s, i, {BackrefClose}) # {}
         THEN StripNonRenderingFrom(s, Min(PositionsAfter(s, i, {BackrefClose})) + 1)
         ELSE <<s[i]>> \o StripNonRenderingFrom(s, i + 1)

StripNonRendering(s) == StripNonRenderingFrom(s, 1)

\* re.sub(r'<[^>]+>', '', html)
StripTags(s) == SelectSeq(s, LAMBDA t : t \notin HtmlTags)

RECURSIVE AttrText(_)
\* the loop over re.findall of the attribute pattern: text += ' ' + val
AttrText(s) ==
    IF s = <<>> THEN <<>>
    ELSE (IF Head(s) = AltTag THEN <<" ", "v">> ELSE <<>>) \o AttrText(Tail(s))

RECURSIVE StyleContentText(_)
\* ''.join(re.findall of the style="...content:'...'" pattern)
StyleContentText(s) ==
    IF s = <<>> THEN <<>>
    ELSE (IF Head(s) = StyleAttrTag THEN <<"w">> ELSE <<>>)
            \o StyleContentText(Tail(s))

extract_chars_from_html(content) ==
    LET stripped == StripNonRendering(content)
        text     == StripTags(stripped) \o AttrText(stripped)
                       \o StyleContentText(stripped)
    IN  Range(text)

----------------------------------------------------------------------------
(* extract_chars_from_js *)

RECURSIVE FindQuotedFrom(_, _, _)
\* re.findall of q(.*?)q from position i on: the texts between one q and
\* the next, pair by pair
FindQuotedFrom(s, q, i) ==
    LET opens == {a \in i..Len(s) : s[a] = q}
    IN  IF opens = {} THEN <<>>
        ELSE LET a      == Min(opens)
                 closes == PositionsAfter(s, a, {q})
             IN  IF closes = {} THEN <<>>
                 ELSE LET b == Min(closes)
                      IN  <<SubSeq(s, a + 1, b - 1)>> \o FindQuotedFrom(s, q, b + 1)

FindQuoted(s, q) == FindQuotedFrom(s, q, 1)

RECURSIVE StripTemplateExprFrom(_, _)
\* re.sub(r'\${.*?}', '', match) from position i on: a dollar sign and an
\* opening brace, then as little as possible up to a closing brace
StripTemplateExprFrom(s, i) ==
    IF i > Len(s) THEN <<>>
    ELSE IF /\ s[i] = "$"
            /\ i + 1 <= Len(s)
            /\ s[i + 1] = "{"
            /\ PositionsAfter(s, i + 1, {"}"}) # {}
         THEN StripTemplateExprFrom(s, Min(PositionsAfter(s, i + 1, {"}"})) + 1)
         ELSE <<s[i]>> \o StripTemplateExprFrom(s, i + 1)

StripTemplateExpr(s) == StripTemplateExprFrom(s, 1)

RECURSIVE FindJsxFrom(_, _)
\* re.findall(r'[>}]\t*([^<{]+?)\t*[<{]', js_content) from position i on,
\* for texts without tabs: after a > or }, one or more tokens other than
\* < and {, up to the next < or {
FindJsxFrom(s, i) ==
    LET starts == {a \in i..Len(s) :
                      /\ s[a] \in {">", "}"}
                      /\ a + 1 <= Len(s)
                      /\ s[a + 1] \notin {"<", "{"}
                      /\ PositionsAfter(s, a + 1, {"<", "{"}) # {}}
    IN  IF starts = {} THEN <<>>
        ELSE LET a == Min(starts)
                 b == Min(PositionsAfter(s, a + 1, {"<", "{"}))
             IN  <<SubSeq(s, a + 1, b - 1)>> \o FindJsxFrom(s, b + 1)

FindJsx(s) == FindJsxFrom(s, 1)

RECURSIVE FindConsoleArgsFrom(_, _)
\* re.findall(r'console\.(log|warn|error|info)\(([^)]+)\)', js_content)
\* from position i on: the non-empty text between the call's parenthesis
\* and the next closing parenthesis
FindConsoleArgsFrom(s, i) ==
    LET starts == {a \in i..Len(s) :
                      /\ s[a] = ConsoleLog
                      /\ a + 1 <= Len(s)
                      /\ s[a + 1] # ")"
                      /\ PositionsAfter(s, a + 1, {")"}) # {}}
    IN  IF starts = {} THEN <<>>
        ELSE LET a == Min(starts)
                 b == Min(PositionsAfter(s, a + 1, {")"}))
             IN  <<SubSeq(s, a + 1, b - 1)>> \o FindConsoleArgsFrom(s, b + 1)

FindConsoleArgs(s) == FindConsoleArgsFrom(s, 1)

\* chars.update(match) for every match of a list
CharsOfMatches(ms) == UNION {CharsOfSeq(ms[i]) : i \in 1..Len(ms)}

MapStripTemplateExpr(ms) == [i \in 1..Len(ms) |-> StripTemplateExpr(ms[i])]

extract_chars_from_js(content) ==
    LET strings ==
            CharsOfMatches(FindQuoted(content, "\""))
              \cup CharsOfMatches(FindQuoted(content, "'"))
              \cup CharsOfMatches(MapStripTemplateExpr(FindQuoted(content, "U+0060")))
        jsx     == CharsOfMatches(FindJsx(content))
        args    == FindConsoleArgs(content)
        logs    == UNION {CharsOfMatches(FindQuoted(args[i], "\""))
                            \cup CharsOfMatches(FindQuoted(args[i], "'"))
                          : i \in 1..Len(args)}
    IN  strings \cup jsx \cup logs

----------------------------------------------------------------------------
(* The inputs of a run *)

\* the paths a scanned directory may hold, by kind; path i is of kind
\* ((i - 1) % Len(PathKinds)) + 1
PathKinds ==
    << [ext |-> ".html", is_file |-> TRUE,
        content |-> <<ScriptOpen, "x", ScriptClose, "U+4E16", AltTag>>],
       [ext |-> ".js", is_file |-> TRUE,
        content |-> <<"\"", "U+754C", "\"", ">", "z", "<">>],
       [ext |-> ".txt", is_file |-> TRUE,
        content |-> <<"q">>],
       [ext |-> ".HTML", is_file |-> TRUE,
        content |-> <<"U+FFE5", StyleAttrTag>>],
       [ext |-> "", is_file |-> FALSE,
        content |-> <<>>],
       [ext |-> ".json", is_file |-> TRUE,
        content |-> <<"'", "U+2460", "'">>] >>

Paths == 1..NumFiles

PathOf(f) == PathKinds[((f - 1) % Len(PathKinds)) + 1]

\* the values of --keep a run may be given
KeepValues == {<<>>, <<"!", "?">>, <<"U+FFE5", "U+2460">>}

KeepGiven ==
    {[given |-> FALSE, value |-> <<>>]}
      \cup {[given |-> TRUE, value |-> k] : k \in KeepValues}

\* the characters a direct caller of create_font_subset chooses from
CharPool == <<"A", "U+4E16", "\n", "!", "U+754C", "z">>

PoolChars == {CharPool[i] : i \in 1..MaxChars}

NoFont == [state |-> "none", unicodes |-> {}]

OutputAt(start) == [state |-> start, subsetted |-> FALSE, unicodes |-> {}]

----------------------------------------------------------------------------
(* collect_chars_from_directory *)

\* file_path.suffix.lower()
Lower(ext) == IF ext = ".HTML" THEN ".html" ELSE ext

JsSuffixes == {".js", ".jsx", ".ts", ".tsx", ".json"}

\* the branch of the loop body a path takes
Recognized(f) ==
    /\ PathOf(f).is_file
    /\ Lower(PathOf(f).ext) \in {".html"} \cup JsSuffixes

\* the extractor called for a recognized file
FileChars(f) ==
    IF Lower(PathOf(f).ext) = ".html"
    THEN extract_chars_from_html(PathOf(f).content)
    ELSE extract_chars_from_js(PathOf(f).content)

UpdateAllChars_Overwrite(acc, cs) == cs

\* all_chars.update(...)
UpdateAllChars(acc, cs) == acc \cup cs

\* dir_path.rglob('*'): the paths below the directory; none when the
\* directory is missing or cannot be listed
Rglob(d) == IF d.exists THEN d.files ELSE {}

----------------------------------------------------------------------------
(* main, up to the call of create_font_subset *)

\* parser.parse_args(): --keep takes its default when it is not given
ParseArgs ==
    /\ pc = "start"
    /\ args_keep' = IF keep_given.given THEN keep_given.value ELSE DefaultKeep
    /\ pc' = "collect"
    /\ UNCHANGED <<directory, unreadable, keep_given, font_kind, out0, caller,
                   pending, visited, all_chars, file_count, char_set,
                   unicode_set, font, out, fail_stage, reported>>
    /\ UNCHANGED htmlVars

\* collect_chars_from_directory, up to the loop
StartCollect ==
    /\ pc = "collect"
    /\ all_chars' = {}
    /\ file_count' = 0
    /\ pending' = Rglob(directory)
    /\ visited' = <<>>
    /\ pc' = "scan"
    /\ UNCHANGED <<directory, unreadable, keep_given, font_kind, out0, caller,
                   args_keep, char_set, unicode_set, font, out, fail_stage,
                   reported>>
    /\ UNCHANGED htmlVars

\* a read or decode error aborts the scan instead of being logged
ScanFile_AbortOnError(f) ==
    /\ pc = "scan"
    /\ f \in pending
    /\ pending' = pending \ {f}
    /\ visited' = Append(visited, f)
    /\ IF Recognized(f) /\ f \in unreadable
       THEN /\ pc' = "failed"
            /\ fail_stage' = "scan"
            /\ UNCHANGED <<all_chars, file_count>>
       ELSE /\ all_chars' = IF Recognized(f)
                            THEN UpdateAllChars(all_chars, FileChars(f))
                            ELSE all_chars
            /\ file_count' = IF Recognized(f) THEN file_count + 1 ELSE file_count
            /\ UNCHANGED <<pc, fail_stage>>
    /\ UNCHANGED <<directory, unreadable, keep_given, font_kind, out0, caller,
                   args_keep, char_set, unicode_set, font, out, reported>>
    /\ UNCHANGED htmlVars

\* one turn of the loop of collect_chars_from_directory, on the path f that
\* rglob yields next: a file of a recognized suffix is read and its
\* characters added; an exception of the extractor is logged and the loop
\* goes on
ScanFile(f) ==
    /\ pc = "scan"
    /\ f \in pending
    /\ pending' = pending \ {f}
    /\ visited' = Append(visited, f)
    /\ IF Recognized(f) /\ f \notin unreadable
       THEN /\ all_chars' = UpdateAllChars(all_chars, FileChars(f))
            /\ file_count' = file_count + 1
       ELSE UNCHANGED <<all_chars, file_count>>
    /\ UNCHANGED <<directory, unreadable, keep_given, font_kind, out0, caller,
                   pc, args_keep, char_set, unicode_set, font, out, fail_stage,
                   reported>>
    /\ UNCHANGED htmlVars

\* the iterator is exhausted: the loop ends, the count is logged and
\* all_chars is returned to main as char_set; the record of the visits ends
\* with the loop
EndCollect ==
    /\ pc = "scan"
    /\ pending = {}
    /\ char_set' = all_chars
    /\ visited' = <<>>
    /\ pc' = "keep"
    /\ UNCHANGED <<directory, unreadable, keep_given, font_kind, out0, caller,
                   args_keep, pending, all_chars, file_count,
                   unicode_set, font, out, fail_stage, reported>>
    /\ UNCHANGED htmlVars

\* digits + ascii_letters + punctuation
BuiltinKeep == Range(digits \o ascii_letters \o punctuation)

KeptChars_IgnoreKeep(keep) == BuiltinKeep

\* the characters main adds to char_set: the built-in ones, and those of
\* args.keep when it is not empty
KeptChars(keep) ==
    BuiltinKeep \cup (IF keep # <<>> THEN Range(keep) ELSE {})

AddKeep ==
    /\ pc = "keep"
    /\ char_set' = char_set \cup KeptChars(args_keep)
    /\ pc' = "cfs_load"
    /\ UNCHANGED <<directory, unreadable, keep_given, font_kind, out0, caller,
                   args_keep, pending, visited, all_chars, file_count,
                   unicode_set, font, out, fail_stage, reported>>
    /\ UNCHANGED htmlVars

----------------------------------------------------------------------------
(* create_font_subset *)

\* TTFont(font_path) and the Options: raises when the font cannot be loaded
LoadFont ==
    /\ pc = "cfs_load"
    /\ IF font_kind = "unloadable"
       THEN /\ pc' = "failed"
            /\ fail_stage' = "load"
            /\ UNCHANGED font
       ELSE /\ font' = [state |-> "loaded", unicodes |-> {}]
            /\ pc' = "cfs_unicodes"
            /\ UNCHANGED fail_stage
    /\ UNCHANGED <<directory, unreadable, keep_given, font_kind, out0, caller,
                   args_keep, pending, visited, all_chars, file_count, char_set,
                   unicode_set, out, reported>>
    /\ UNCHANGED htmlVars

\* {ord(c) for c in ' \n\t\r'}
basic_chars == {Ord(BasicWhitespace[i]) : i \in 1..Len(BasicWhitespace)}

UnicodeSetOf_NoWhitespace(cs) == {Ord(c) : c \in cs}

\* the code points of char_set, then unicode_set |= basic_chars
UnicodeSetOf(cs) == {Ord(c) : c \in cs} \cup basic_chars

BuildUnicodes ==
    /\ pc = "cfs_unicodes"
    /\ unicode_set' = UnicodeSetOf(char_set)
    /\ pc' = "cfs_subset"
    /\ UNCHANGED <<directory, unreadable, keep_given, font_kind, out0, caller,
                   args_keep, pending, visited, all_chars, file_count, char_set,
                   font, out, fail_stage, reported>>
    /\ UNCHANGED htmlVars

\* an exception of the subsetter is swallowed and the font saved anyway
SubsetFont_IgnoreError ==
    /\ pc = "cfs_subset"
    /\ IF unicode_set # {} /\ font_kind # "unsubsettable"
       THEN font' = [state |-> "subset", unicodes |-> unicode_set]
       ELSE UNCHANGED font
    /\ fail_stage' = IF unicode_set # {} /\ font_kind = "unsubsettable"
                     THEN "subset" ELSE fail_stage
    /\ pc' = "cfs_save"
    /\ UNCHANGED <<directory, unreadable, keep_given, font_kind, out0, caller,
                   args_keep, pending, visited, all_chars, file_count, char_set,
                   unicode_set, out, reported>>
    /\ UNCHANGED htmlVars

\* if unicode_set: populate and subset; raises when the font cannot be
\* subsetted
SubsetFont ==
    /\ pc = "cfs_subset"
    /\ IF unicode_set = {}
       THEN /\ pc' = "cfs_save"
            /\ UNCHANGED <<font, fail_stage>>
       ELSE IF font_kind = "unsubsettable"
            THEN /\ pc' = "failed"
                 /\ fail_stage' = "subset"
                 /\ UNCHANGED font
            ELSE /\ font' = [state |-> "subset", unicodes |-> unicode_set]
                 /\ pc' = "cfs_save"
                 /\ UNCHANGED fail_stage
    /\ UNCHANGED <<directory, unreadable, keep_given, font_kind, out0, caller,
                   args_keep, pending, visited, all_chars, file_count, char_set,
                   unicode_set, out, reported>>
    /\ UNCHANGED htmlVars

\* save_font(font, output_path, options): the output path itself is opened
\* for writing, which empties it
SaveOpen ==
    /\ pc = "cfs_save"
    /\ out' = OutputAt("partial")
    /\ pc' = "cfs_write"
    /\ UNCHANGED <<directory, unreadable, keep_given, font_kind, out0, caller,
                   args_keep, pending, visited, all_chars, file_count, char_set,
                   unicode_set, font, fail_stage, reported>>
    /\ UNCHANGED htmlVars

\* save_font raises before the output path is opened
SaveOpenFails ==
    /\ pc = "cfs_save"
    /\ pc' = "failed"
    /\ fail_stage' = "write"
    /\ UNCHANGED <<directory, unreadable, keep_given, font_kind, out0, caller,
                   args_keep, pending, visited, all_chars, file_count, char_set,
                   unicode_set, font, out, reported>>
    /\ UNCHANGED htmlVars

\* save_font: the font is written to the opened output path
SaveWrite ==
    /\ pc = "cfs_write"
    /\ out' = [state |-> "complete", subsetted |-> font.state = "subset",
               unicodes |-> font.unicodes]
    /\ pc' = "cfs_close"
    /\ UNCHANGED <<directory, unreadable, keep_given, font_kind, out0, caller,
                   args_keep, pending, visited, all_chars, file_count, char_set,
                   unicode_set, font, fail_stage, reported>>
    /\ UNCHANGED htmlVars

\* save_font raises while writing to the opened output path
SaveWriteFails ==
    /\ pc = "cfs_write"
    /\ pc' = "failed"
    /\ fail_stage' = "write"
    /\ UNCHANGED <<directory, unreadable, keep_given, font_kind, out0, caller,
                   args_keep, pending, visited, all_chars, file_count, char_set,
                   unicode_set, font, out, reported>>
    /\ UNCHANGED htmlVars

\* font.close() and the return to the caller
CloseFont ==
    /\ pc = "cfs_close"
    /\ font' = [font EXCEPT !.state = "closed"]
    /\ pc' = IF caller = "main" THEN "report" ELSE "returned"
    /\ UNCHANGED <<directory, unreadable, keep_given, font_kind, out0, caller,
                   args_keep, pending, visited, all_chars, file_count, char_set,
                   unicode_set, out, fail_stage, reported>>
    /\ UNCHANGED htmlVars

----------------------------------------------------------------------------
(* main, after create_font_subset *)

\* the sizes of the two files are read and the reduction logged
Report ==
    /\ pc = "report"
    /\ reported' = TRUE
    /\ pc' = "done"
    /\ UNCHANGED <<directory, unreadable, keep_given, font_kind, out0, caller,
                   args_keep, pending, visited, all_chars, file_count, char_set,
                   unicode_set, font, out, fail_stage>>
    /\ UNCHANGED htmlVars

Terminal == {"done", "returned", "failed", "crashed"}

\* the process is killed
Crash ==
    /\ pc \notin Terminal
    /\ pc' = "crashed"
    /\ UNCHANGED <<directory, unreadable, keep_given, font_kind, out0, caller,
                   args_keep, pending, visited, all_chars, file_count, char_set,
                   unicode_set, font, out, fail_stage, reported>>
    /\ UNCHANGED htmlVars

----------------------------------------------------------------------------
(* Specifications *)

FontKinds == {"good", "unloadable", "unsubsettable"}

IdleHtml ==
    /\ html = <<>>
    /\ html_result = {}
    /\ html_pc = "idle"

\* a run of main
Init ==
    /\ directory \in
          {[exists |-> FALSE, files |-> {}]}
            \cup {[exists |-> TRUE, files |-> fs] : fs \in SUBSET Paths}
    /\ unreadable \in SUBSET directory.files
    /\ keep_given \in KeepGiven
    /\ font_kind \in FontKinds
    /\ out0 \in {"absent", "old"}
    /\ caller = "main"
    /\ pc = "start"
    /\ args_keep = <<>>
    /\ pending = {}
    /\ visited = <<>>
    /\ all_chars = {}
    /\ file_count = 0
    /\ char_set = {}
    /\ unicode_set = {}
    /\ font = NoFont
    /\ out = OutputAt(out0)
    /\ fail_stage = "none"
    /\ reported = FALSE
    /\ IdleHtml

Next ==
    \/ ParseArgs
    \/ StartCollect
    \/ \E f \in Paths : ScanFile(f)
    \/ EndCollect
    \/ AddKeep
    \/ LoadFont
    \/ BuildUnicodes
    \/ SubsetFont
    \/ SaveOpen
    \/ SaveOpenFails
    \/ SaveWrite
    \/ SaveWriteFails
    \/ CloseFont
    \/ Report
    \/ Crash

Spec == Init /\ [][Next]_vars

\* a call of create_font_subset with any character set
InitSubset ==
    /\ directory = [exists |-> FALSE, files |-> {}]
    /\ unreadable = {}
    /\ keep_given = [given |-> FALSE, value |-> <<>>]
    /\ font_kind \in FontKinds
    /\ out0 \in {"absent", "old"}
    /\ caller = "direct"
    /\ pc = "cfs_load"
    /\ args_keep = <<>>
    /\ pending = {}
    /\ visited = <<>>
    /\ all_chars = {}
    /\ file_count = 0
    /\ char_set \in SUBSET PoolChars
    /\ unicode_set = {}
    /\ font = NoFont
    /\ out = OutputAt(out0)
    /\ fail_stage = "none"
    /\ reported = FALSE
    /\ IdleHtml

NextSubset ==
    \/ LoadFont
    \/ BuildUnicodes
    \/ SubsetFont
    \/ SaveOpen
    \/ SaveOpenFails
    \/ SaveWrite
    \/ SaveWriteFails
    \/ CloseFont
    \/ Crash

SpecSubset == InitSubset /\ [][NextSubset]_vars

\* the tokens of the texts given to extract_chars_from_html on its own
HtmlAlphabet ==
    {ScriptOpen, ScriptClose, StyleOpen, StyleClose, BackrefClose, AltTag,
     StyleAttrTag, "x", "z"}

\* a call of extract_chars_from_html on any text
InitHtml ==
    /\ directory = [exists |-> FALSE, files |-> {}]
    /\ unreadable = {}
    /\ keep_given = [given |-> FALSE, value |-> <<>>]
    /\ font_kind = "good"
    /\ out0 = "absent"
    /\ caller = "direct"
    /\ pc = "returned"
    /\ args_keep = <<>>
    /\ pending = {}
    /\ visited = <<>>
    /\ all_chars = {}
    /\ file_count = 0
    /\ char_set = {}
    /\ unicode_set = {}
    /\ font = NoFont
    /\ out = OutputAt(out0)
    /\ fail_stage = "none"
    /\ reported = FALSE
    /\ html \in UNION {[1..n -> HtmlAlphabet] : n \in 0..MaxHtmlLen}
    /\ html_result = {}
    /\ html_pc = "read"

\* html = file_path.read_text(...) has been read; the rest of the function
ExtractHtml ==
    /\ html_pc = "read"
    /\ html_result' = extract_chars_from_html(html)
    /\ html_pc' = "returned"
    /\ UNCHANGED html
    /\ UNCHANGED mainVars

NextHtml == ExtractHtml

SpecHtml == InitHtml /\ [][NextHtml]_vars

----------------------------------------------------------------------------
(* Properties *)

\* the positions of a run of main at which collect_chars_from_directory
\* has returned
AfterCollect ==
    {"keep", "cfs_load", "cfs_unicodes", "cfs_subset", "cfs_save",
     "cfs_write", "cfs_close", "report", "done", "failed"}

\* the positions at which unicode_set is complete
AfterUnicodes ==
    {"cfs_subset", "cfs_save", "cfs_write", "cfs_close", "report", "done",
     "returned"}

\* the recognized files of the directory whose read does not fail
GoodFiles == {f \in Rglob(directory) : Recognized(f) /\ f \notin unreadable}

\* the recognized files of the directory whose read fails
FailingFiles == {f \in Rglob(directory) : Recognized(f) /\ f \in unreadable}

\* C1: a failing read of a recognized file never aborts the scan: the loop
\* takes every path rglob yields, all_chars holds exactly the characters of
\* the good files taken so far and nothing of a failing one, and what the
\* scan returns is exactly the union of the characters of the recognized
\* files that did not fail.
C1_ScanSurvivesFailures ==
    /\ pc = "failed" => fail_stage \in {"load", "subset", "write"}
    /\ pc = "scan" =>
          /\ Range(visited) \cup pending = Rglob(directory)
          /\ all_chars = UNION {FileChars(f) : f \in GoodFiles \cap Range(visited)}
    /\ pc \in AfterCollect =>
          /\ pending = {}
          /\ all_chars = UNION {FileChars(f) : f \in GoodFiles}

\* the loop has taken every path, and read a good file after a failing one
C1_Witness ==
    /\ pc = "scan"
    /\ pending = {}
    /\ \E i, j \in 1..Len(visited) :
          /\ i < j
          /\ visited[i] \in FailingFiles
          /\ visited[j] \in GoodFiles
          /\ FileChars(visited[j]) # {}
          /\ FileChars(visited[j]) \subseteq all_chars
          /\ FileChars(visited[i]) \cap all_chars = {}

\* C2: the output path never holds a partial file: in every state of a run
\* over an existing directory it holds what it held at the start or the
\* complete new font.
C2_OutputNeverPartial ==
    directory.exists =>
        \/ out = OutputAt(out0)
        \/ out.state = "complete"

\* C3: with a missing or unreadable source directory the run stops before
\* the font is subsetted and leaves the output path as it was.
C3_MissingDirectoryAborts ==
    ~directory.exists =>
        /\ font.state # "subset"
        /\ out = OutputAt(out0)
        /\ pc # "done"

\* the positions of a run of main at which the kept characters are added
AfterKeep == AfterCollect \ {"keep"}

\* C4: without --keep, the characters main adds to the characters collected
\* from an existing directory are exactly the ASCII digits, letters and
\* punctuation.
C4_DefaultKeepIsAscii ==
    (directory.exists /\ ~keep_given.given /\ pc \in AfterKeep) =>
        char_set = all_chars \cup Range(digits \o ascii_letters \o punctuation)

\* C5: when the font cannot be loaded or subsetted the run fails before the
\* write step: the output path stays as it was and nothing is reported; the
\* size report comes only after a completed write.
C5_FontFailureWritesNothing ==
    /\ font_kind # "good" =>
          /\ out = OutputAt(out0)
          /\ ~reported
          /\ pc \notin {"cfs_save", "cfs_write", "cfs_close", "report", "done"}
    /\ fail_stage \in {"load", "subset"} => pc = "failed"
    /\ reported => out.state = "complete"

\* the subsetter has raised over a font whose output path held a file
C5_Witness ==
    /\ pc = "failed"
    /\ fail_stage = "subset"
    /\ out0 = "old"
    /\ out.state = "old"
    /\ font.state = "loaded"

\* the opening tags of the elements C6 names
ClaimedNonRendering == {ScriptOpen, StyleOpen, "<noscript>"}

\* position i of a markup text lies between an opening tag of such an
\* element and the closing tag that matches it
InsideNonRendering(s, i) ==
    \E j \in 1..(i - 1) :
        /\ s[j] \in ClaimedNonRendering
        /\ PositionsAfter(s, j, {ClosingOf(s[j])}) # {}
        /\ Min(PositionsAfter(s, j, {ClosingOf(s[j])})) > i

\* C6: a character of the text that occurs only inside script, style or
\* noscript elements is not among the characters returned.
C6_ScriptContentStripped ==
    html_pc = "returned" =>
        \A c \in Range(html) \ HtmlTags :
            (\A i \in 1..Len(html) : html[i] = c => InsideNonRendering(html, i))
                => c \notin html_result

\* the orders in which the paths of a set can be visited
Orders(S) ==
    {p \in [1..Cardinality(S) -> S] : \A i, j \in DOMAIN p : p[i] = p[j] => i = j}

RECURSIVE CollectFrom(_, _)
\* the loop of collect_chars_from_directory run from all_chars = acc over
\* the paths of p in their order
CollectFrom(acc, p) ==
    IF p = <<>> THEN acc
    ELSE CollectFrom(IF Recognized(Head(p)) /\ Head(p) \notin unreadable
                     THEN UpdateAllChars(acc, FileChars(Head(p)))
                     ELSE acc,
                     Tail(p))

\* C7: whatever the order in which the paths are visited, the scan returns
\* the same set: every order of the directory's paths yields what this run
\* returned.
C7_OrderIndependent ==
    (pc \in AfterCollect \/ (pc = "scan" /\ pending = {})) =>
        \A p \in Orders(Rglob(directory)) : CollectFrom({}, p) = all_chars

\* the loop has taken every path and read two good files with different
\* characters, the higher path first
C7_Witness ==
    /\ pc = "scan"
    /\ pending = {}
    /\ \E i, j \in 1..Len(visited) :
          /\ i < j
          /\ visited[i] > visited[j]
          /\ {visited[i], visited[j]} \subseteq GoodFiles
          /\ FileChars(visited[i]) # FileChars(visited[j])
          /\ FileChars(visited[i]) \cup FileChars(visited[j]) \subseteq all_chars

\* the code points of space, line feed, tab and carriage return
WhitespaceCodes == {32, 10, 9, 13}

C10_AlwaysSubsetted ==
    /\ pc \in AfterUnicodes =>
          /\ WhitespaceCodes \subseteq unicode_set
          /\ unicode_set # {}
    /\ pc \in {"cfs_save", "cfs_write", "cfs_close"} =>
          /\ font.state = "subset"
          /\ font.unicodes = unicode_set
    /\ out.state = "complete" =>
          /\ out.subsetted
          /\ WhitespaceCodes \subseteq out.unicodes

\* create_font_subset was given the empty set and has written a subsetted
\* font
C10_Witness ==
    /\ caller = "direct"
    /\ char_set = {}
    /\ out.state = "complete"
    /\ out.subsetted
    /\ out.unicodes = WhitespaceCodes

====
